---- MODULE Spec2Model ----
(***************************************************************************)
(* Model of src/src/components/CryptoTracker.tsx: the PotentialList        *)
(* component (lines 298-680): the scoring and filter/rank pipeline         *)
(* (calculatePotentialScore, filterData), the snapshot track (fetchData,   *)
(* the 60 s interval, the refresh button) and the history track            *)
(* (handleCryptoClick, handleTimeRangeChange, fetchHistoricalData,         *)
(* chartData and the render branch of the chart area).                     *)
(*                                                                         *)
(* Numbers.  JavaScript numbers are modelled as records                    *)
(*   [k |-> "fin", v |-> n]   the finite number n / Scale (fixed point),   *)
(*   [k |-> "inf", v |-> 1]   +Infinity,   [k |-> "inf", v |-> -1] -Inf,   *)
(*   [k |-> "nan", v |-> 0]   NaN.                                         *)
(* TLC integers are 32 bits wide, so amounts of money and of coins are     *)
(* written in millions: the text "2000" in marketCapUsd stands for         *)
(* 2 000 000 000 USD, and the thresholds 1000000 and 5000000000 of the     *)
(* source are 1 and 5000 here.  Every formula of the score is a ratio of   *)
(* two amounts or a difference of two logarithms, so it is unchanged by    *)
(* the choice of unit.  Times are in minutes instead of milliseconds.      *)
(* Texts are sequences of one-character strings, parsed by parseFloat.     *)
(***************************************************************************)
EXTENDS Integers, Sequences, FiniteSets, Bags, TLC

(***************************************************************************)
(* Bounds of the model.                                                    *)
(***************************************************************************)
\* longest list of records given to filterData in the pipeline specification
MaxCoins == 3
\* most snapshot requests in flight at once
MaxSnapInFlight == 2
\* most history requests in flight at once
MaxHistInFlight == 2
\* most points in one history response
MaxPoints == 1
\* history points given to the chartData memo in the chart specification
MaxSeries == 2

(***************************************************************************)
(* JavaScript numbers.                                                     *)
(***************************************************************************)
\* fixed-point denominator of finite numbers: v = 1000 is the number 1
Scale == 1000

NaN == [k |-> "nan", v |-> 0]
PosInf == [k |-> "inf", v |-> 1]
NegInf == [k |-> "inf", v |-> -1]
Fin(n) == [k |-> "fin", v |-> n]
\* the integer literal n of the source
Lit(n) == Fin(n * Scale)

isNaN(x) == x.k = "nan"
IsFinite(x) == x.k = "fin"
Sign(x) == IF x.v > 0 THEN 1 ELSE IF x.v < 0 THEN -1 ELSE 0

\* a < b of JavaScript: false when either side is NaN
Lt(a, b) ==
  IF isNaN(a) \/ isNaN(b) THEN FALSE
  ELSE IF a.k = "inf" THEN a.v = -1 /\ b # NegInf
  ELSE IF b.k = "inf" THEN b.v = 1
  ELSE a.v < b.v
Gt(a, b) == Lt(b, a)
\* a <= b of JavaScript: a < b or a == b, false when either side is NaN
Le(a, b) == ~isNaN(a) /\ ~isNaN(b) /\ (Lt(a, b) \/ a = b)
Ge(a, b) == Le(b, a)

Neg(x) == IF isNaN(x) THEN NaN ELSE [k |-> x.k, v |-> -x.v]

\* a + b: Infinity + -Infinity is NaN
Add(a, b) ==
  IF isNaN(a) \/ isNaN(b) THEN NaN
  ELSE IF a.k = "inf" /\ b.k = "inf" THEN (IF a.v = b.v THEN a ELSE NaN)
  ELSE IF a.k = "inf" THEN a
  ELSE IF b.k = "inf" THEN b
  ELSE Fin(a.v + b.v)
Sub(a, b) == Add(a, Neg(b))

\* n * x for an integer literal n # 0 of the source
Times(n, x) ==
  IF isNaN(x) THEN NaN
  ELSE IF x.k = "inf" THEN [k |-> "inf", v |-> x.v * (IF n > 0 THEN 1 ELSE -1)]
  ELSE Fin(n * x.v)

\* a / b: x/0 is +-Infinity, 0/0 and Infinity/Infinity are NaN, x/Infinity is 0
Div(a, b) ==
  IF isNaN(a) \/ isNaN(b) THEN NaN
  ELSE IF a.k = "inf" THEN
         (IF b.k = "inf" THEN NaN
          ELSE [k |-> "inf", v |-> a.v * (IF b.v < 0 THEN -1 ELSE 1)])
  ELSE IF b.k = "inf" THEN Fin(0)
  ELSE IF b.v = 0 THEN
         (IF a.v = 0 THEN NaN ELSE [k |-> "inf", v |-> Sign(a)])
  ELSE Fin((a.v * Scale) \div b.v)

\* Math.min and Math.max: NaN when either argument is NaN
MathMin(a, b) == IF isNaN(a) \/ isNaN(b) THEN NaN ELSE IF Lt(b, a) THEN b ELSE a
MathMax(a, b) == IF isNaN(a) \/ isNaN(b) THEN NaN ELSE IF Lt(a, b) THEN b ELSE a

\* Math.round: the nearest integer, halves towards +Infinity; NaN and the
\* infinities are returned as they are
MathRound(x) ==
  IF x.k # "fin" THEN x ELSE Fin(((x.v + Scale \div 2) \div Scale) * Scale)

\* x is an integer of JavaScript
IsInteger(x) == x.k = "fin" /\ x.v % Scale = 0

(***************************************************************************)
(* parseFloat: optional sign, then "Infinity" or digits with an optional   *)
(* fraction; the longest such prefix is the number, anything else is NaN.  *)
(* A null argument is first turned into the text "null".  Leading blanks   *)
(* are skipped.  Fractions keep three digits.  No text of the model        *)
(* carries an exponent part.                                               *)
(***************************************************************************)
Digits == {"0", "1", "2", "3", "4", "5", "6", "7", "8", "9"}
DigitVal(c) ==
  CASE c = "0" -> 0 [] c = "1" -> 1 [] c = "2" -> 2 [] c = "3" -> 3
    [] c = "4" -> 4 [] c = "5" -> 5 [] c = "6" -> 6 [] c = "7" -> 7
    [] c = "8" -> 8 [] c = "9" -> 9

InfinityText == <<"I", "n", "f", "i", "n", "i", "t", "y">>
NullText == <<"n", "u", "l", "l">>

\* the text t from its i-th character on
Tail_(t, i) == IF i > Len(t) THEN <<>> ELSE SubSeq(t, i, Len(t))
StartsWith(t, p) == Len(t) >= Len(p) /\ SubSeq(t, 1, Len(p)) = p

RECURSIVE SkipBlanks(_)
SkipBlanks(t) ==
  IF t # <<>> /\ t[1] = " " THEN SkipBlanks(Tail(t)) ELSE t

\* how many digits t starts with
RECURSIVE DigitRun(_)
DigitRun(t) ==
  IF t # <<>> /\ t[1] \in Digits THEN 1 + DigitRun(Tail(t)) ELSE 0

\* the value of the first n characters of t, all digits
RECURSIVE DigitsValue(_, _)
DigitsValue(t, n) ==
  IF n = 0 THEN 0 ELSE 10 * DigitsValue(t, n - 1) + DigitVal(t[n])

\* the first three digits of a fraction, in units of 1/Scale
FractionValue(t, n) ==
  (IF n >= 1 THEN 100 * DigitVal(t[1]) ELSE 0)
  + (IF n >= 2 THEN 10 * DigitVal(t[2]) ELSE 0)
  + (IF n >= 3 THEN DigitVal(t[3]) ELSE 0)

parseFloat(text) ==
  LET s == SkipBlanks(text)
      signed == s # <<>> /\ s[1] \in {"-", "+"}
      sgn == IF s # <<>> /\ s[1] = "-" THEN -1 ELSE 1
      body == IF signed THEN Tail(s) ELSE s
      ni == DigitRun(body)
      afterInt == Tail_(body, ni + 1)
      dotted == afterInt # <<>> /\ afterInt[1] = "."
      frac == IF dotted THEN Tail(afterInt) ELSE <<>>
      nf == DigitRun(frac)
  IN  IF StartsWith(body, InfinityText) THEN [k |-> "inf", v |-> sgn]
      ELSE IF ni = 0 /\ nf = 0 THEN NaN
      ELSE Fin(sgn * (DigitsValue(body, ni) * Scale + FractionValue(frac, nf)))

(***************************************************************************)
(* Math.log on the amounts the model uses: the natural logarithm of the    *)
(* amount in USD, to three decimals.  An amount of v / Scale millions is   *)
(* v * 1000 USD.  Only market capitalisations inside the band of           *)
(* calculatePotentialScore reach Math.log.                                 *)
(***************************************************************************)
MathLog(x) ==
  CASE x.v = 1000    -> Fin(13816)   \* ln(1 000 000)
    [] x.v = 2000    -> Fin(14509)   \* ln(2 000 000)
    [] x.v = 100000  -> Fin(18421)   \* ln(100 000 000)
    [] x.v = 2000000 -> Fin(21416)   \* ln(2 000 000 000)
    [] x.v = 5000000 -> Fin(22333)   \* ln(5 000 000 000)

(***************************************************************************)
(* Records of the snapshot endpoint (interface CryptoData): the id and the *)
(* five numeric texts the pipeline reads.  Null is JavaScript's null.      *)
(***************************************************************************)
Null == [null |-> TRUE]

Coin(id, marketCapUsd, volumeUsd24Hr, changePercent24Hr, supply, maxSupply) ==
  [id |-> id, marketCapUsd |-> marketCapUsd, volumeUsd24Hr |-> volumeUsd24Hr,
   changePercent24Hr |-> changePercent24Hr, supply |-> supply,
   maxSupply |-> maxSupply]

\* the literals 1000000 and 5000000000 of calculatePotentialScore, in millions
CapFloor == Lit(1)
CapCeil == Lit(5000)

marketCapScore(marketCap) ==
  IF Ge(marketCap, CapFloor) /\ Le(marketCap, CapCeil)
  THEN Times(30, Sub(Lit(1),
                     Div(Sub(MathLog(marketCap), MathLog(CapFloor)),
                         Sub(MathLog(CapCeil), MathLog(CapFloor)))))
  ELSE Lit(0)

volumeScore(volume, marketCap) ==
  IF Gt(volume, Lit(0))
  THEN MathMin(Lit(25), Times(100, Div(volume, marketCap)))
  ELSE Lit(0)

supplyScore(supply, maxSupply) ==
  IF ~isNaN(supply) /\ ~isNaN(maxSupply) /\ Gt(maxSupply, Lit(0))
  THEN Times(20, Sub(Lit(1), Div(supply, maxSupply)))
  ELSE Lit(0)

trendScore(changePercent) ==
  IF ~isNaN(changePercent)
  THEN MathMin(Lit(25), MathMax(Lit(0), changePercent))
  ELSE Lit(0)

\* reading a field of null throws, and the catch returns 0
calculatePotentialScore(coin) ==
  IF coin = Null THEN Lit(0)
  ELSE
    LET marketCap == parseFloat(coin.marketCapUsd)
        volume == parseFloat(coin.volumeUsd24Hr)
        changePercent == parseFloat(coin.changePercent24Hr)
        supply == parseFloat(coin.supply)
        maxSupply == parseFloat(coin.maxSupply)
    IN  MathRound(Add(Add(Add(marketCapScore(marketCap),
                              volumeScore(volume, marketCap)),
                          supplyScore(supply, maxSupply)),
                      trendScore(changePercent)))

(***************************************************************************)
(* filterData: filter, map (score), sort, slice.                           *)
(***************************************************************************)
\* useState<FilterParams>: never set again
filterParams ==
  [minVolume |-> Lit(1), minMarketCap |-> Lit(1), maxMarketCap |-> Lit(5000),
   maxResults |-> 100]

\* the predicate of data.filter: parseFloat(coin.volumeUsd24Hr) throws for a
\* null record and the inner catch returns false
isValid(coin, fp) ==
  IF coin = Null THEN FALSE
  ELSE
    LET volumeUsd == parseFloat(coin.volumeUsd24Hr)
        marketCap == parseFloat(coin.marketCapUsd)
        changePercent == parseFloat(coin.changePercent24Hr)
    IN  /\ ~isNaN(volumeUsd)
        /\ Ge(volumeUsd, fp.minVolume)
        /\ ~isNaN(marketCap)
        /\ Ge(marketCap, fp.minMarketCap)
        /\ Le(marketCap, fp.maxMarketCap)
        /\ ~isNaN(changePercent)

\* {...coin, potentialScore: calculatePotentialScore(coin)}
withScore(coin) == [potentialScore |-> calculatePotentialScore(coin)] @@ coin

\* x || 0 on a number: 0 and NaN are falsy
OrZero(x) == IF isNaN(x) \/ x = Lit(0) THEN Lit(0) ELSE x

\* the comparator of sort
compareFn(a, b) == Sub(OrZero(b.potentialScore), OrZero(a.potentialScore))

\* Array.prototype.sort is stable and moves b before a only when
\* compareFn(a, b) > 0 (a NaN result counts as 0): insertion from the left
RECURSIVE insertSorted(_, _)
insertSorted(s, x) ==
  IF s = <<>> THEN <<x>>
  ELSE IF Gt(compareFn(s[Len(s)], x), Lit(0))
       THEN Append(insertSorted(SubSeq(s, 1, Len(s) - 1), x), s[Len(s)])
       ELSE Append(s, x)

RECURSIVE sortByScore(_)
sortByScore(s) ==
  IF s = <<>> THEN <<>>
  ELSE insertSorted(sortByScore(SubSeq(s, 1, Len(s) - 1)), s[Len(s)])

\* slice(0, n)
slice0(s, n) == SubSeq(s, 1, IF Len(s) < n THEN Len(s) ELSE n)

scoreAll(s) == [i \in 1..Len(s) |-> withScore(s[i])]

\* the value filterData returns.  data is an array (the endpoint's contract),
\* so data.filter does not throw and the outer catch is not taken
\* a filter without the inner try/catch: a null record throws into the outer
\* catch, which returns []
filterDataAborting(data, fp) ==
  IF \E i \in 1..Len(data) : data[i] = Null THEN <<>>
  ELSE slice0(sortByScore(scoreAll(SelectSeq(data, LAMBDA c : isValid(c, fp)))),
              fp.maxResults)

filterData(data, fp) ==
  slice0(sortByScore(scoreAll(SelectSeq(data, LAMBDA c : isValid(c, fp)))),
         fp.maxResults)

\* error messages (error: string | null); the texts of the source are
\* '沒有找到符合條件的數據' and '獲取數據失敗，請稍後重試'
NoError == "null"
MsgNoMatch == "no data matches the filter"
MsgFetchFailed == "fetching data failed"

\* the error state filterData sets: setError(...) on the length of its result
filterDataError(data, fp) ==
  IF Len(filterData(data, fp)) = 0 THEN MsgNoMatch ELSE NoError

(***************************************************************************)
(* The time-range catalogue and the history endpoint.                      *)
(***************************************************************************)
TIME_RANGES ==
  [r \in {"24H", "7D", "30D", "ALL"} |->
     CASE r = "24H" -> [interval |-> "m5", days |-> 1]
       [] r = "7D"  -> [interval |-> "h1", days |-> 7]
       [] r = "30D" -> [interval |-> "h2", days |-> 30]
       [] r = "ALL" -> [interval |-> "d1", days |-> 2000]]

RangeTokens == DOMAIN TIME_RANGES

\* 24 * 60 * 60 * 1000 ms, in minutes
DayLength == 1440
\* the reading of Date.now(), in minutes
Now == 3000000

\* a request whose window is one day, whatever the range
historyRequestOneDay(cryptoId, range) ==
  [cryptoId |-> cryptoId, range |-> range,
   interval |-> TIME_RANGES[range].interval,
   start |-> Now - DayLength,
   end |-> Now]

\* the request fetchHistoricalData issues
historyRequest(cryptoId, range) ==
  [cryptoId |-> cryptoId, range |-> range,
   interval |-> TIME_RANGES[range].interval,
   start |-> Now - TIME_RANGES[range].days * DayLength,
   end |-> Now]

\* minutes between two samples of an interval of the endpoint
SampleStep(interval) ==
  CASE interval = "m5" -> 5 [] interval = "h1" -> 60
    [] interval = "h2" -> 120 [] interval = "d1" -> DayLength

\* the price text the endpoint reports for an asset
PriceText(cryptoId) == IF cryptoId = "A" THEN <<"7", ".", "5">> ELSE <<"9">>

\* response.data.data of the history endpoint for a request: n points of the
\* requested asset, sampled from the start of the requested window
historyBody(req, n) ==
  [i \in 1..n |->
     [priceUsd |-> PriceText(req.cryptoId),
      time |-> req.start + (i - 1) * SampleStep(req.interval)]]

HistoryBodies(req) == {historyBody(req, n) : n \in 0..MaxPoints}

(***************************************************************************)
(* The snapshot endpoint: the bodies (response.data.data) it may return.   *)
(***************************************************************************)
CoinA == Coin("A", <<"2", "0", "0", "0">>, <<"1", "0", "0", "0">>,
              <<"1", "0">>, <<"0", ".", "5">>, <<"1">>)
CoinB == Coin("B", <<"1">>, <<"1">>, <<"3", "0">>, <<"0">>, <<"1">>)
\* a volume of 500 000 USD, under minVolume
CoinLow == Coin("L", <<"2", "0", "0", "0">>, <<"0", ".", "5">>,
                <<"1", "0">>, <<"0", ".", "5">>, <<"1">>)

SnapshotBodies == {<<CoinA, CoinB>>, <<CoinLow>>}

(***************************************************************************)
(* State of PotentialList (the useState hooks), its effect, and the        *)
(* requests awaiting a response.                                           *)
(***************************************************************************)
VARIABLES
  error,              \* useState<string | null>(null)
  selectedTimeRange,  \* useState('7D')
  selectedCrypto,     \* useState<CryptoData | null>(null)
  historicalData,     \* useState<any[]>([])
  loadingHistory,     \* useState(false)
  data,               \* useState<CryptoData[]>([])
  loading,            \* useState(true)
  lifecycle,          \* "created", "mounted" (effect ran), "unmounted"
  interval,           \* the setInterval timer is running
  pendingSnapshots,   \* calls of fetchData awaiting axios.get
  pendingHistory      \* calls of fetchHistoricalData awaiting axios.get (a bag)

(***************************************************************************)
(* Inputs and result of filterData in the pipeline specification.          *)
(***************************************************************************)
VARIABLES
  pInput,    \* the list given to filterData
  pParams,   \* the filter parameters given to filterData
  pOutput,   \* the list filterData returned
  pDone      \* filterData has run

(***************************************************************************)
(* Input and result of calculatePotentialScore in the scoring              *)
(* specification: a record and its twin, which differs from it in          *)
(* changePercent24Hr only.                                                 *)
(***************************************************************************)
VARIABLES
  sCoin,       \* the record given to calculatePotentialScore
  sTwin,       \* the same record with another changePercent24Hr
  sScore,      \* calculatePotentialScore(sCoin)
  sTwinScore,  \* calculatePotentialScore(sTwin)
  sDone        \* calculatePotentialScore has run

(***************************************************************************)
(* Input and result of the chartData memo in the chart specification.      *)
(***************************************************************************)
VARIABLES
  cHist,    \* historicalData
  cRange,   \* selectedTimeRange
  cChart,   \* the value of the memo
  cDone     \* the memo has run

compVars == <<error, selectedTimeRange, selectedCrypto, historicalData,
              loadingHistory, data, loading, lifecycle, interval,
              pendingSnapshots, pendingHistory>>
pipeVars == <<pInput, pParams, pOutput, pDone>>
scoreVars == <<sCoin, sTwin, sScore, sTwinScore, sDone>>
chartVars == <<cHist, cRange, cChart, cDone>>
harnessVars == <<pipeVars, scoreVars, chartVars>>
vars == <<compVars, harnessVars>>

snapVars == <<error, data, loading, pendingSnapshots>>
histVars == <<selectedTimeRange, selectedCrypto, historicalData,
              loadingHistory, pendingHistory>>

\* the state after construction, before the effect has run
InitComponent ==
  /\ error = NoError
  /\ selectedTimeRange = "7D"
  /\ selectedCrypto = Null
  /\ historicalData = <<>>
  /\ loadingHistory = FALSE
  /\ data = <<>>
  /\ loading = TRUE
  /\ lifecycle = "created"
  /\ interval = FALSE
  /\ pendingSnapshots = 0
  /\ pendingHistory = EmptyBag

InitPipeIdle ==
  /\ pInput = <<>>
  /\ pParams = filterParams
  /\ pOutput = <<>>
  /\ pDone = FALSE

InitScoreIdle ==
  /\ sCoin = Null
  /\ sTwin = Null
  /\ sScore = Lit(0)
  /\ sTwinScore = Lit(0)
  /\ sDone = FALSE

InitChartIdle ==
  /\ cHist = <<>>
  /\ cRange = "7D"
  /\ cChart = Null
  /\ cDone = FALSE

Init == InitComponent /\ InitPipeIdle /\ InitScoreIdle /\ InitChartIdle

(***************************************************************************)
(* chartData (useMemo) and the render branch of the chart area.            *)
(***************************************************************************)
\* toLocaleDateString: the calendar day, and the hour for the 24H range
label(time, range) ==
  IF range = "24H"
  THEN [day |-> time \div DayLength, hour |-> (time % DayLength) \div 60]
  ELSE [day |-> time \div DayLength]

\* a memo that lists the values newest first
chartDataOfReversed(hist, range) ==
  IF Len(hist) = 0 THEN Null
  ELSE [labels |-> [i \in 1..Len(hist) |-> label(hist[i].time, range)],
        values |-> [i \in 1..Len(hist) |->
                      parseFloat(hist[Len(hist) + 1 - i].priceUsd)]]

chartDataOf(hist, range) ==
  IF Len(hist) = 0 THEN Null
  ELSE [labels |-> [i \in 1..Len(hist) |-> label(hist[i].time, range)],
        values |-> [i \in 1..Len(hist) |-> parseFloat(hist[i].priceUsd)]]

chartData == chartDataOf(historicalData, selectedTimeRange)

\* what the chart area of the dialog shows
historyView ==
  IF loadingHistory THEN "progress"
  ELSE IF chartData # Null THEN "chart"
  ELSE "could-not-load"

(***************************************************************************)
(* Snapshot track: fetchData, the effect with its interval, the refresh    *)
(* button.                                                                 *)
(***************************************************************************)
\* fetchData up to its await: setLoading(true), then axios.get is issued
fetchDataStart ==
  /\ pendingSnapshots < MaxSnapInFlight
  /\ loading' = TRUE
  /\ pendingSnapshots' = pendingSnapshots + 1
  /\ UNCHANGED <<error, data>>

\* useEffect on mount: fetchData(), then setInterval(fetchData, 60000)
Mount ==
  /\ lifecycle = "created"
  /\ fetchDataStart
  /\ lifecycle' = "mounted"
  /\ interval' = TRUE
  /\ UNCHANGED <<histVars, harnessVars>>

\* the interval fires: fetchData(), whatever loading is
IntervalTick ==
  /\ interval
  /\ fetchDataStart
  /\ UNCHANGED <<lifecycle, interval, histVars, harnessVars>>

\* the refresh button: disabled while loading, and behind the dialog while
\* an asset is selected
RefreshClick ==
  /\ lifecycle = "mounted"
  /\ ~loading
  /\ selectedCrypto = Null
  /\ fetchDataStart
  /\ UNCHANGED <<lifecycle, interval, histVars, harnessVars>>

\* a fulfilment handler that appends the new output to the held list
fetchDataFulfilledMerging(body) ==
  /\ data' = data \o filterData(body, filterParams)
  /\ error' = NoError
  /\ loading' = FALSE

\* fetchData after its await, the request fulfilled with body:
\* filterData (with its setError), setData, setError(null), setLoading(false)
fetchDataFulfilled(body) ==
  /\ data' = filterData(body, filterParams)
  /\ error' = NoError
  /\ loading' = FALSE

\* a rejection handler that also empties the list
fetchDataRejectedClearsList ==
  /\ data' = <<>>
  /\ error' = MsgFetchFailed
  /\ loading' = FALSE

\* fetchData after its await, the request rejected: the catch and the finally
fetchDataRejected ==
  /\ data' = data
  /\ error' = MsgFetchFailed
  /\ loading' = FALSE

SnapshotFulfilled ==
  /\ pendingSnapshots > 0
  /\ pendingSnapshots' = pendingSnapshots - 1
  /\ UNCHANGED <<lifecycle, interval, histVars, harnessVars>>
  /\ \E body \in SnapshotBodies : fetchDataFulfilled(body)

SnapshotRejected ==
  /\ pendingSnapshots > 0
  /\ pendingSnapshots' = pendingSnapshots - 1
  /\ UNCHANGED <<lifecycle, interval, histVars, harnessVars>>
  /\ fetchDataRejected

\* a cleanup that leaves the timer running
UnmountKeepsTimer ==
  /\ lifecycle = "mounted"
  /\ lifecycle' = "unmounted"
  /\ interval' = interval
  /\ UNCHANGED <<snapVars, histVars, harnessVars>>

\* the cleanup of the effect: clearInterval
Unmount ==
  /\ lifecycle = "mounted"
  /\ lifecycle' = "unmounted"
  /\ interval' = FALSE
  /\ UNCHANGED <<snapVars, histVars, harnessVars>>

(***************************************************************************)
(* History track: handleCryptoClick, handleTimeRangeChange, the dialog's   *)
(* onClose, fetchHistoricalData.                                           *)
(***************************************************************************)
\* fetchHistoricalData up to its await: setLoadingHistory(true), then the
\* request is issued
fetchHistoricalDataStart(cryptoId, range) ==
  /\ BagCardinality(pendingHistory) < MaxHistInFlight
  /\ loadingHistory' = TRUE
  /\ pendingHistory' = pendingHistory (+) SetToBag({historyRequest(cryptoId, range)})
  /\ UNCHANGED historicalData

\* a card of the grid is clicked: the grid is rendered when loading is false,
\* and the dialog covers it while an asset is selected
CryptoClick ==
  /\ lifecycle = "mounted"
  /\ ~loading
  /\ selectedCrypto = Null
  /\ \E i \in 1..Len(data) :
       /\ selectedCrypto' = data[i]
       /\ fetchHistoricalDataStart(data[i].id, selectedTimeRange)
  /\ UNCHANGED <<selectedTimeRange, snapVars, lifecycle, interval, harnessVars>>

\* a toggle of the dialog is clicked; the group reports null for the toggle
\* already selected, and the handler ignores null
TimeRangeChange ==
  /\ lifecycle = "mounted"
  /\ selectedCrypto # Null
  /\ \E newRange \in RangeTokens \ {selectedTimeRange} :
       /\ selectedTimeRange' = newRange
       /\ fetchHistoricalDataStart(selectedCrypto.id, newRange)
  /\ UNCHANGED <<selectedCrypto, snapVars, lifecycle, interval, harnessVars>>

\* onClose of the dialog and its close button
DialogClose ==
  /\ lifecycle = "mounted"
  /\ selectedCrypto # Null
  /\ selectedCrypto' = Null
  /\ UNCHANGED <<selectedTimeRange, historicalData, loadingHistory,
                 pendingHistory, snapVars, lifecycle, interval, harnessVars>>

\* fetchHistoricalData after its await, fulfilled with body
fetchHistoricalDataFulfilled(req, body) ==
  /\ historicalData' = body
  /\ loadingHistory' = FALSE

\* a rejection handler without the finally block
fetchHistoricalDataRejectedNoFinally(req) ==
  /\ historicalData' = historicalData
  /\ loadingHistory' = loadingHistory

\* fetchHistoricalData after its await, rejected: the catch and the finally
fetchHistoricalDataRejected(req) ==
  /\ historicalData' = historicalData
  /\ loadingHistory' = FALSE

HistoryFulfilled(req) ==
  /\ BagIn(req, pendingHistory)
  /\ pendingHistory' = pendingHistory (-) SetToBag({req})
  /\ UNCHANGED <<selectedTimeRange, selectedCrypto, snapVars, lifecycle,
                 interval, harnessVars>>
  /\ \E body \in HistoryBodies(req) : fetchHistoricalDataFulfilled(req, body)

HistoryRejected(req) ==
  /\ BagIn(req, pendingHistory)
  /\ pendingHistory' = pendingHistory (-) SetToBag({req})
  /\ UNCHANGED <<selectedTimeRange, selectedCrypto, snapVars, lifecycle,
                 interval, harnessVars>>
  /\ fetchHistoricalDataRejected(req)

\* a pending request is answered, with a failure or with a response
HistoryResolved ==
  \E req \in BagToSet(pendingHistory) : HistoryRejected(req) \/ HistoryFulfilled(req)
SnapshotResolved == SnapshotRejected \/ SnapshotFulfilled

Next ==
  \/ Mount
  \/ IntervalTick
  \/ RefreshClick
  \/ SnapshotFulfilled
  \/ SnapshotRejected
  \/ Unmount
  \/ CryptoClick
  \/ TimeRangeChange
  \/ DialogClose
  \/ \E req \in BagToSet(pendingHistory) : HistoryFulfilled(req)
  \/ \E req \in BagToSet(pendingHistory) : HistoryRejected(req)

Spec == Init /\ [][Next]_vars

(***************************************************************************)
(* The pipeline specification: filterData applied to every list of at most *)
(* MaxCoins records drawn from PipelineCoins, for every maxResults up to   *)
(* MaxCoins and the component's own.                                       *)
(***************************************************************************)
\* supply above maxSupply
CoinOver == Coin("O", <<"5", "0", "0", "0">>, <<"1">>, <<"-", "5">>,
                 <<"2">>, <<"1">>)
\* a negative supply
CoinNeg == Coin("N", <<"1">>, <<"1">>, <<"3", "0">>, <<"-", "1">>, <<"1">>)
\* a volume text that parses to Infinity
CoinInf == Coin("I", <<"2", "0", "0", "0">>, InfinityText, <<"1", "0">>,
                <<"0", ".", "5">>, <<"1">>)
\* supply and maxSupply both parse to Infinity
CoinNaN == Coin("X", <<"1", "0", "0">>, <<"1", "0">>, <<"5">>,
                InfinityText, InfinityText)
\* a change text that does not parse
CoinBad == Coin("Z", <<"1", "0", "0">>, <<"1", "0">>, <<"a", "b", "c">>,
                <<"1">>, <<"2">>)
\* maxSupply: null (an uncapped asset)
CoinUncapped == Coin("U", <<"1", "0", "0">>, <<"1", "0">>, <<"5">>,
                     <<"1">>, NullText)

PipelineCoins ==
  {CoinA, CoinB, CoinLow, CoinOver, CoinNeg, CoinInf, CoinNaN, CoinBad,
   CoinUncapped, Null}

SeqsUpTo(S, n) == UNION {[1..m -> S] : m \in 0..n}

PipelineParams ==
  {[filterParams EXCEPT !.maxResults = n] : n \in 0..MaxCoins} \cup {filterParams}

InitPipeline ==
  /\ InitComponent /\ InitScoreIdle /\ InitChartIdle
  /\ pInput \in SeqsUpTo(PipelineCoins, MaxCoins)
  /\ pParams \in PipelineParams
  /\ pOutput = <<>>
  /\ pDone = FALSE

RunFilterData ==
  /\ ~pDone
  /\ pOutput' = filterData(pInput, pParams)
  /\ pDone' = TRUE
  /\ UNCHANGED <<pInput, pParams, compVars, scoreVars, chartVars>>

NextPipeline == RunFilterData

PipelineSpec == InitPipeline /\ [][NextPipeline]_vars

(***************************************************************************)
(* The scoring specification: calculatePotentialScore runs on one record   *)
(* and on its twin.  The records are all the combinations of the field     *)
(* texts below, and null.                                                  *)
(***************************************************************************)
\* 1 000 000, 2 000 000 000 (both inside the band), and an unparsable text
CapTexts == {<<"1">>, <<"2", "0", "0", "0">>, <<"a", "b", "c">>}
VolumeTexts == {<<"1", "0">>, <<"0">>}
ChangeTexts ==
  {<<"-", "5">>, <<"1", "0">>, <<"3", "0">>, <<"a", "b", "c">>, InfinityText}
SupplyTexts == {<<"0", ".", "5">>, <<"2">>, InfinityText}
MaxSupplyTexts == {<<"1">>, NullText, InfinityText}

ScoreCoins ==
  {Coin("S", mc, v, c, s, ms) :
     mc \in CapTexts, v \in VolumeTexts, c \in ChangeTexts,
     s \in SupplyTexts, ms \in MaxSupplyTexts} \cup {Null}

\* {...coin, changePercent24Hr: text}
withChange(coin, text) ==
  IF coin = Null THEN Null ELSE [coin EXCEPT !.changePercent24Hr = text]

InitScore ==
  /\ InitComponent /\ InitPipeIdle /\ InitChartIdle
  /\ sCoin \in ScoreCoins
  /\ \E text \in ChangeTexts : sTwin = withChange(sCoin, text)
  /\ sScore = Lit(0)
  /\ sTwinScore = Lit(0)
  /\ sDone = FALSE

RunScore ==
  /\ ~sDone
  /\ sScore' = calculatePotentialScore(sCoin)
  /\ sTwinScore' = calculatePotentialScore(sTwin)
  /\ sDone' = TRUE
  /\ UNCHANGED <<sCoin, sTwin, compVars, pipeVars, chartVars>>

NextScore == RunScore

ScoreSpec == InitScore /\ [][NextScore]_vars

(***************************************************************************)
(* The chart specification: the chartData memo runs on a list of up to     *)
(* MaxSeries history points and a range token.                             *)
(***************************************************************************)
ChartTimes == {Now - DayLength, Now - DayLength + 60, Now}
ChartPrices == {<<"7", ".", "5">>, <<"9">>, <<"a", "b", "c">>}
ChartPoints == {[priceUsd |-> p, time |-> t] : p \in ChartPrices, t \in ChartTimes}

InitChart ==
  /\ InitComponent /\ InitPipeIdle /\ InitScoreIdle
  /\ cHist \in SeqsUpTo(ChartPoints, MaxSeries)
  /\ cRange \in RangeTokens
  /\ cChart = Null
  /\ cDone = FALSE

RunChart ==
  /\ ~cDone
  /\ cChart' = chartDataOf(cHist, cRange)
  /\ cDone' = TRUE
  /\ UNCHANGED <<cHist, cRange, compVars, pipeVars, scoreVars>>

NextChart == RunChart

ChartSpec == InitChart /\ [][NextChart]_vars

(***************************************************************************)
(* Every issued request is answered: a pending request is eventually       *)
(* fulfilled or rejected, and the continuation of its await runs.          *)
(***************************************************************************)
LiveSpec == Spec /\ WF_vars(SnapshotResolved) /\ WF_vars(HistoryResolved)

\* the history request of the current selection (an asset is selected)
currentRequest == historyRequest(selectedCrypto.id, selectedTimeRange)
\* req was issued for the current selection
isCurrent(req) == selectedCrypto # Null /\ req = currentRequest

(***************************************************************************)
(* Properties of the history track.                                        *)
(***************************************************************************)
\* C1: a history response is committed only when the request it answers was
\* issued for the selection current at that moment; the response to a request
\* of a superseded or cleared selection changes neither the series nor the
\* loading state.
C1_StaleResultDiscarded ==
  [][\A req \in BagToSet(pendingHistory) :
       (HistoryFulfilled(req) /\ ~isCurrent(req))
         => UNCHANGED <<historicalData, loadingHistory>>]_vars

\* C8: while an asset is selected and the history track is not fetching, a
\* series on display is one the endpoint returns for the current (asset,
\* range) pair, never the series fetched for another pair.
C8_SeriesOfCurrentSelection ==
  (selectedCrypto # Null /\ ~loadingHistory /\ historicalData # <<>>)
    => historicalData \in HistoryBodies(currentRequest)

\* C10: when the request of the current selection is fulfilled with zero
\* points, the chart area does not show the could-not-load state.
C10_EmptySeriesIsReady ==
  [][\A req \in BagToSet(pendingHistory) :
       (HistoryFulfilled(req) /\ isCurrent(req) /\ historicalData' = <<>>)
         => historyView' # "could-not-load"]_vars

(***************************************************************************)
(* Properties of the snapshot track.                                       *)
(***************************************************************************)
\* C2: at most one snapshot fetch is in flight in every reachable state.
C2_AtMostOneSnapshotInFlight == pendingSnapshots <= 1

\* C4: when a snapshot fetch is fulfilled and the filter keeps no record, the
\* ranked list is empty and the error state is the no-matches message.
C4_EmptyResultSetsNoMatch ==
  [][(SnapshotFulfilled /\ data' = <<>>) => error' = MsgNoMatch]_vars

\* C7: when a snapshot fetch is rejected, loading becomes false, the ranked
\* list is the one held before, and the failure message is set.
C7_FailureKeepsList ==
  [][SnapshotRejected
       => (~loading' /\ data' = data /\ error' = MsgFetchFailed)]_vars

\* a fetch failed after an earlier one had filled the list: the list is kept
C7_FailedWithListKept ==
  lifecycle = "mounted" /\ error = MsgFetchFailed /\ ~loading /\ data # <<>>

\* C9: when every issued request is answered, a started snapshot fetch leads
\* to loading being false and a started history fetch to loadingHistory being
\* false; a rejected request leaves its track out of the fetching state, the
\* snapshot track with the failure message.
C9_NoHang ==
  /\ (loading /\ pendingSnapshots > 0) ~> ~loading
  /\ loadingHistory ~> ~loadingHistory
  /\ [][SnapshotRejected => (~loading' /\ error' = MsgFetchFailed)]_vars
  /\ [][\A req \in BagToSet(pendingHistory) :
          HistoryRejected(req) => ~loadingHistory']_vars

\* both tracks have started fetches and have left the fetching state, the
\* snapshot track by a failure
C9_BothTracksAtRest ==
  /\ lifecycle = "mounted"
  /\ error = MsgFetchFailed /\ ~loading /\ pendingSnapshots = 0
  /\ selectedCrypto # Null /\ ~loadingHistory /\ pendingHistory = EmptyBag

(***************************************************************************)
(* Properties of filterData, under PipelineSpec.                           *)
(***************************************************************************)
\* the records of pInput the filter is to keep, in input order
survivors == SelectSeq(pInput, LAMBDA c : isValid(c, pParams))
Min(a, b) == IF a < b THEN a ELSE b

\* C3: every entry of the list filterData returns has a potentialScore that
\* is an integer between 0 and 100.
C3_ScoreBound ==
  pDone => \A i \in 1..Len(pOutput) :
             /\ IsInteger(pOutput[i].potentialScore)
             /\ Ge(pOutput[i].potentialScore, Lit(0))
             /\ Le(pOutput[i].potentialScore, Lit(100))

\* C5: every entry of the list filterData returns has volume, marketCap and
\* changePercent texts that parse to finite numbers, with
\* volume >= minVolume and minMarketCap <= marketCap <= maxMarketCap.
C5_FilterSound ==
  pDone => \A i \in 1..Len(pOutput) :
             LET volume == parseFloat(pOutput[i].volumeUsd24Hr)
                 marketCap == parseFloat(pOutput[i].marketCapUsd)
                 changePercent == parseFloat(pOutput[i].changePercent24Hr)
             IN  /\ IsFinite(volume) /\ IsFinite(marketCap)
                 /\ IsFinite(changePercent)
                 /\ Ge(volume, pParams.minVolume)
                 /\ Ge(marketCap, pParams.minMarketCap)
                 /\ Le(marketCap, pParams.maxMarketCap)

\* C6: the list filterData returns is no longer than maxResults, each entry's
\* potentialScore is >= the next entry's, and the entries are the maxResults
\* highest-ranked records the filter keeps.
C6_RankedDescendingBounded ==
  pDone =>
    /\ Len(pOutput) = Min(Len(survivors), pParams.maxResults)
    /\ \A i \in 1..(Len(pOutput) - 1) :
         Ge(pOutput[i].potentialScore, pOutput[i + 1].potentialScore)
    /\ \A i \in 1..Len(pOutput) :
         \E j \in 1..Len(survivors) : pOutput[i] = withScore(survivors[j])
    /\ \A j \in 1..Len(survivors) :
         \/ \E i \in 1..Len(pOutput) : pOutput[i] = withScore(survivors[j])
         \/ \A i \in 1..Len(pOutput) :
              ~Gt(calculatePotentialScore(survivors[j]),
                  pOutput[i].potentialScore)

\* a record the validation is to reject: null, or a volume, marketCap or
\* changePercent text that does not parse to a number
isInvalidRecord(coin) ==
  \/ coin = Null
  \/ isNaN(parseFloat(coin.volumeUsd24Hr))
  \/ isNaN(parseFloat(coin.marketCapUsd))
  \/ isNaN(parseFloat(coin.changePercent24Hr))

\* C11: the list filterData returns for an input list equals the list it
\* returns for the same input with every invalid record removed.
C11_InvalidRecordsOnlyDropped ==
  pDone => pOutput = filterData(SelectSeq(pInput, LAMBDA c : ~isInvalidRecord(c)),
                                pParams)

\* filterData ran on a list holding a null record and an unparsable record,
\* and returned a non-empty list
C11_BadRecordsBesideGoodOnes ==
  /\ pDone /\ Len(pOutput) > 0
  /\ \E i \in 1..Len(pInput) : pInput[i] = Null
  /\ \E i \in 1..Len(pInput) : pInput[i] = CoinBad

(***************************************************************************)
(* Properties of calculatePotentialScore, under ScoreSpec.                 *)
(***************************************************************************)
\* a text of the record that a sub-score reads does not parse to a number
someFieldFailsToParse(coin) ==
  \/ isNaN(parseFloat(coin.marketCapUsd))
  \/ isNaN(parseFloat(coin.volumeUsd24Hr))
  \/ isNaN(parseFloat(coin.changePercent24Hr))
  \/ isNaN(parseFloat(coin.supply))
  \/ isNaN(parseFloat(coin.maxSupply))

\* C12: when the record is null or one of the texts a sub-score reads does
\* not parse, calculatePotentialScore returns 0.
C12_FailSoftScore ==
  sDone => ((sCoin = Null \/ someFieldFailsToParse(sCoin)) => sScore = Lit(0))

\* C16: of a record and its twin with another changePercent24Hr, whose changePercent24Hr texts both parse,
\* the one with the larger change has a score >= the other's; a negative
\* change contributes 0 to the score and a change of 25 or more contributes 25.
C16_TrendMonotone ==
  (sDone /\ sCoin # Null /\ sTwin # sCoin) =>
    LET change == parseFloat(sCoin.changePercent24Hr)
        twinChange == parseFloat(sTwin.changePercent24Hr)
    IN  /\ (~isNaN(change) /\ ~isNaN(twinChange) /\ Ge(twinChange, change))
              => Ge(sTwinScore, sScore)
        /\ Lt(change, Lit(0)) => trendScore(change) = Lit(0)
        /\ Ge(change, Lit(25)) => trendScore(change) = Lit(25)

(***************************************************************************)
(* Properties of the chartData memo, under ChartSpec.                      *)
(***************************************************************************)
\* the labels and the values the chart draws: none when the memo is null
seriesLabels(chart) == IF chart = Null THEN <<>> ELSE chart.labels
seriesValues(chart) == IF chart = Null THEN <<>> ELSE chart.values

\* C14: the chart series has as many labels and as many values as there are
\* history points, and label i and value i are those of history point i.
C14_SeriesOneToOne ==
  cDone =>
    /\ Len(seriesLabels(cChart)) = Len(cHist)
    /\ Len(seriesValues(cChart)) = Len(cHist)
    /\ \A i \in 1..Len(cHist) :
         /\ seriesLabels(cChart)[i] = label(cHist[i].time, cRange)
         /\ seriesValues(cChart)[i] = parseFloat(cHist[i].priceUsd)

\* the memo ran on two points with different prices and times
C14_TwoDistinctPoints ==
  /\ cDone /\ Len(cHist) = 2 /\ cChart # Null
  /\ cHist[1].priceUsd # cHist[2].priceUsd
  /\ cHist[1].time # cHist[2].time

(***************************************************************************)
(* Further properties of the component, under Spec.                        *)
(***************************************************************************)
\* C13: every history request in flight carries the interval of its range
\* token (m5, h1, h2, d1) and the window end = now, start = now - days days
\* (1, 7, 30, 2000); a click on an asset or a change of the range issues
\* exactly one request, the one of the new selection.
C13_RequestOfToken ==
  /\ [](\A req \in BagToSet(pendingHistory) :
          LET days == CASE req.range = "24H" -> 1 [] req.range = "7D" -> 7
                        [] req.range = "30D" -> 30 [] req.range = "ALL" -> 2000
          IN  /\ req.interval = CASE req.range = "24H" -> "m5"
                                  [] req.range = "7D" -> "h1"
                                  [] req.range = "30D" -> "h2"
                                  [] req.range = "ALL" -> "d1"
              /\ req.end = Now
              /\ req.start = Now - days * DayLength)
  /\ [][(CryptoClick \/ TimeRangeChange)
          => /\ BagCardinality(pendingHistory') = BagCardinality(pendingHistory) + 1
             /\ \E req \in BagToSet(pendingHistory') :
                  /\ req.cryptoId = selectedCrypto'.id
                  /\ req.range = selectedTimeRange'
                  /\ CopiesIn(req, pendingHistory')
                       = CopiesIn(req, pendingHistory) + 1]_vars

\* a request for the ALL range is in flight
C13_AllRangeInFlight ==
  \E req \in BagToSet(pendingHistory) :
    req.range = "ALL" /\ req.interval = "d1" /\ req.end - req.start = 2000 * DayLength

\* C15: once the component is unmounted, the timer starts no snapshot fetch:
\* no step increases the number of snapshot fetches in flight.
C15_NoFetchAfterUnmount ==
  [][lifecycle = "unmounted"
       => (~IntervalTick /\ pendingSnapshots' <= pendingSnapshots)]_vars

\* the component is unmounted and every snapshot fetch has been answered
C15_UnmountedAndQuiet ==
  lifecycle = "unmounted" /\ pendingSnapshots = 0 /\ ~loading

\* C17: a fulfilled snapshot fetch makes the ranked list the pipeline output
\* of a response body, and the list held is always empty (none fulfilled yet)
\* or the pipeline output of a response body, never a merge of two.
C17_ListIsPipelineOutput ==
  /\ [](data = <<>>
          \/ \E body \in SnapshotBodies : data = filterData(body, filterParams))
  /\ [][SnapshotFulfilled
          => \E body \in SnapshotBodies :
               data' = filterData(body, filterParams)]_vars

\* an asset of an earlier list is selected and a later fulfilled fetch has
\* replaced the list by an empty pipeline output
C17_ListReplacedByEmptyOutput ==
  selectedCrypto # Null /\ data = <<>> /\ error = NoError /\ ~loading

\* C18: in every state with a history fetch in flight, loadingHistory is
\* true.
C18_LoadingWhileInFlight ==
  BagCardinality(pendingHistory) > 0 => loadingHistory

====
